---- MODULE Spec2Model ----
(***************************************************************************)
(* Model of app.js: the hash router, the session history it navigates,     *)
(* the browser's event loop (hashchange events, zero-delay timers, history *)
(* traversals), the detail view, the top-page carousel, the results        *)
(* search and the map's range results.                                     *)
(*                                                                         *)
(* JavaScript strings are modelled as sequences of one-character strings,  *)
(* so that replace, startsWith, split and the `in` operator are computed   *)
(* as the code computes them.  A character outside ASCII is written as     *)
(* its code point: "u9676" is the character U+9676.                        *)
(***************************************************************************)
EXTENDS Integers, Sequences, FiniteSets, TLC

VARIABLES
    phase,          \* "loading" before DOMContentLoaded has run, "ready" after
    history,        \* session history: the fragments of its entries
    pos,            \* index of the current entry in history (1-based)
    hidden,         \* pages[key].hidden for every key of `pages`
    hashQ,          \* hashchange events fired and not yet dispatched
    timerQ,         \* setTimeout(..., 0) callbacks not yet run, oldest first
    navQ,           \* history.back() traversals requested and not yet applied
    detailSpotId,   \* argument of the last showDetail call
    detailView,     \* what the detail page shows
    arDisplay,      \* #detailArArea style.display
    resultsKeyword, \* #resultsKeyword value
    checkedCats,    \* values of the checked input[name="category"] boxes
    prefValue,      \* #prefSelect value
    cityOptions,    \* values of the options of #citySelect
    cityValue,      \* #citySelect value
    cityDisabled,   \* #citySelect disabled
    resultsGrid,    \* #resultsGrid: its cards (spot ids), or the empty message
    circleState,    \* map: circleState
    mapResultsGrid, \* #mapResultsGrid: its cards, or the empty message
    slideCount,     \* slides.length
    currentIndex,   \* carousel: currentIndex
    goToArg,        \* carousel: the index goToSlide was last called with
    autoplayTimer,  \* carousel: autoplayTimer (0 models null)
    liveTimers,     \* interval timers scheduled in the browser and not cleared
    pointerDown,    \* carousel: pointerDown
    startX,         \* carousel: startX
    swipeMoved,     \* carousel: `moved` of the last drag endSwipe ended
    hovering        \* whether the mouse pointer is over the carousel

routerVars   == <<phase, history, pos, hidden, hashQ, timerQ, navQ>>
detailVars   == <<detailSpotId, detailView, arDisplay>>
formVars     == <<resultsKeyword, checkedCats, prefValue, cityOptions,
                  cityValue, cityDisabled, resultsGrid>>
mapVars      == <<circleState, mapResultsGrid>>
carouselVars == <<slideCount, currentIndex, goToArg, autoplayTimer, liveTimers,
                  pointerDown, startX, swipeMoved, hovering>>
vars == <<phase, history, pos, hidden, hashQ, timerQ, navQ,
          detailSpotId, detailView, arDisplay,
          resultsKeyword, checkedCats, prefValue, cityOptions, cityValue,
          cityDisabled, resultsGrid,
          circleState, mapResultsGrid,
          slideCount, currentIndex, goToArg, autoplayTimer, liveTimers,
          pointerDown, startX, swipeMoved, hovering>>

(***************************************************************************)
(* Bounds of the model.                                                    *)
(***************************************************************************)
MaxHist   == 3   \* entries the session history may hold
MaxTasks  == 2   \* pending hashchange events, and pending traversals
MaxTimeouts == 1 \* pending zero-delay callbacks
MaxSlides == 3   \* largest number of slides in the markup
MaxTimers == 2   \* interval timers that may be scheduled at once
MaxIndex  == 5   \* largest |index| handed to goToSlide by a direct call

(***************************************************************************)
(* Strings.                                                                *)
(***************************************************************************)
TopTok      == <<"t","o","p">>
ResultsTok  == <<"r","e","s","u","l","t","s">>
MapTok      == <<"m","a","p">>
DetailTok   == <<"d","e","t","a","i","l">>
DetailPrefix == <<"d","e","t","a","i","l",":">>
EmptyStr    == <<>>

StartsWith(s, p) ==
    /\ Len(s) >= Len(p)
    /\ SubSeq(s, 1, Len(p)) = p

\* String.prototype.replace(ch, ''): only the first occurrence is removed
ReplaceFirst(s, ch) ==
    IF \E i \in 1..Len(s) : s[i] = ch
    THEN LET i == CHOOSE k \in 1..Len(s) :
                      s[k] = ch /\ \A j \in 1..(k-1) : s[j] # ch
         IN  SubSeq(s, 1, i-1) \o SubSeq(s, i+1, Len(s))
    ELSE s

\* String.prototype.split(ch): the segments between the occurrences of ch
RECURSIVE Split(_, _)
Split(s, ch) ==
    IF \E i \in 1..Len(s) : s[i] = ch
    THEN LET i == CHOOSE k \in 1..Len(s) :
                      s[k] = ch /\ \A j \in 1..(k-1) : s[j] # ch
         IN  <<SubSeq(s, 1, i-1)>> \o Split(SubSeq(s, i+1, Len(s)), ch)
    ELSE <<s>>

(***************************************************************************)
(* The dataset: ids of DUMMY_SPOTS.                                        *)
(***************************************************************************)
SpotIds == { <<"s","1">>, <<"s","2">>, <<"s","3">>,
             <<"s","4">>, <<"s","5">>, <<"s","6">> }
ArSpotId == <<"s","5">>

DetailToken(id) == DetailPrefix \o id

(***************************************************************************)
(* Router.                                                                 *)
(***************************************************************************)
\* own keys of the `pages` object
PageKeys == { TopTok, ResultsTok, MapTok, DetailTok }

\* properties `pages` inherits from Object.prototype (those the model uses)
ObjectPrototypeKeys ==
    { <<"c","o","n","s","t","r","u","c","t","o","r">>,
      <<"t","o","S","t","r","i","n","g">>,
      <<"v","a","l","u","e","O","f">> }

\* `hash in pages`: own and inherited properties
InPages(hash) == hash \in PageKeys \cup ObjectPrototypeKeys

\* location.hash (getter): "" for an empty fragment, else "#" + fragment
LocationHash(fragment) ==
    IF fragment = EmptyStr THEN EmptyStr ELSE <<"#">> \o fragment

\* location.hash = value (setter): the fragment the assignment asks for
FragmentOf(value) ==
    IF Len(value) > 0 /\ value[1] = "#" THEN Tail(value) ELSE value

\* showPage(name): the new hidden flags
showPage(name) == [key \in PageKeys |-> key # name]

\* handleHashChange, line 44
RoutedHash(fragment) ==
    LET h == ReplaceFirst(LocationHash(fragment), "#")
    IN  IF h = EmptyStr THEN TopTok ELSE h

\* handleHashChange, lines 49-50
SpotIdOfHash(hash) ==
    LET parts == Split(hash, ":")
    IN  IF Len(parts) >= 2 /\ parts[2] # EmptyStr THEN parts[2] ELSE EmptyStr

\* showDetail leaving the AR area as it is when the spot is not found
showDetail_notFoundKeepsAr(spotId) ==
    IF spotId \notin SpotIds
    THEN [kind |-> "notfound", id |-> EmptyStr, ar |-> arDisplay]
    ELSE [kind |-> "spot", id |-> spotId,
          ar   |-> IF spotId = ArSpotId THEN "block" ELSE "none"]

\* showDetail(spotId): the fields of the detail page it writes
showDetail(spotId) ==
    IF spotId \notin SpotIds
    THEN [kind |-> "notfound", id |-> EmptyStr, ar |-> "none"]
    ELSE [kind |-> "spot", id |-> spotId,
          ar   |-> IF spotId = ArSpotId THEN "block" ELSE "none"]

\* handleHashChange for the fragment the location holds
handleHashChange(fragment) ==
    LET hash == RoutedHash(fragment) IN
    IF InPages(hash)
    THEN /\ hidden' = showPage(hash)
         /\ UNCHANGED detailVars
    ELSE IF StartsWith(hash, DetailPrefix)
    THEN /\ detailSpotId' = SpotIdOfHash(hash)
         /\ detailView' = [kind |-> showDetail(SpotIdOfHash(hash)).kind,
                           id   |-> showDetail(SpotIdOfHash(hash)).id]
         /\ arDisplay' = showDetail(SpotIdOfHash(hash)).ar
         /\ hidden' = showPage(DetailTok)
    ELSE /\ hidden' = showPage(TopTok)
         /\ UNCHANGED detailVars

Fragment == history[pos]

\* the one page shown, as a set (empty when every page is hidden)
Visible == { key \in PageKeys : ~hidden[key] }

(***************************************************************************)
(* Session history and the event loop.                                     *)
(*                                                                         *)
(* A fragment navigation (an assignment to location.hash, or the user      *)
(* editing the fragment in the address bar) to the fragment the location   *)
(* already has does nothing.  Any other one drops the forward entries,     *)
(* appends an entry and fires hashchange; the event is dispatched later,   *)
(* as a task of its own.  Timer callbacks and traversals are tasks of      *)
(* other task sources, and the event loop is free to pick the next task    *)
(* from any source that has one; tasks of one source run in order.         *)
(***************************************************************************)
Navigate(value) ==
    LET fragment == FragmentOf(value) IN
    IF fragment = Fragment
    THEN [history |-> history, pos |-> pos, hashQ |-> hashQ]
    ELSE [history |-> Append(SubSeq(history, 1, pos), fragment),
          pos     |-> pos + 1,
          hashQ   |-> hashQ + 1]

\* the model's bounds leave room for this navigation
CanNavigate(value) ==
    \/ FragmentOf(value) = Fragment
    \/ /\ pos < MaxHist
       /\ hashQ < MaxTasks

SetLocationHash(value) ==
    /\ CanNavigate(value)
    /\ history' = Navigate(value).history
    /\ pos' = Navigate(value).pos
    /\ hashQ' = Navigate(value).hashQ

\* window.setTimeout(callback, 0)
SetTimeout(callback) ==
    /\ Len(timerQ) < MaxTimeouts
    /\ timerQ' = Append(timerQ, callback)

HashResults == <<"#">> \o ResultsTok
HashMap     == <<"#">> \o MapTok
HashTop     == <<"#">> \o TopTok

(***************************************************************************)
(* Carousel.                                                               *)
(***************************************************************************)
\* goToSlide without the wrap of negative indices
goToSlide_noNegativeWrap(index) ==
    IF index >= slideCount THEN 0 ELSE index

\* goToSlide clamping at the last slide instead of wrapping to the first
goToSlide_clampAtEnd(index) ==
    LET i1 == IF index < 0 THEN slideCount - 1 ELSE index
    IN  IF i1 >= slideCount THEN slideCount - 1 ELSE i1

\* goToSlide(index): the value it gives currentIndex
goToSlide(index) ==
    LET i1 == IF index < 0 THEN slideCount - 1 ELSE index
    IN  IF i1 >= slideCount THEN 0 ELSE i1

GoTo(index) ==
    /\ currentIndex' = goToSlide(index)
    /\ goToArg' = index

\* the handle setInterval returns: a positive integer no live timer has
NewTimerId(live) ==
    CHOOSE id \in 1..(Cardinality(live) + 1) :
        id \notin live /\ \A j \in 1..(id - 1) : j \in live

\* stopAutoplay: autoplayTimer and the live timers after it
stopAutoplay(timer, live) ==
    IF timer # 0
    THEN [timer |-> 0, live |-> live \ {timer}]
    ELSE [timer |-> timer, live |-> live]

\* startAutoplay without the call of stopAutoplay
startAutoplay_noStop(timer, live) ==
    LET id == NewTimerId(live)
    IN  [timer |-> id, live |-> live \cup {id}]

\* startAutoplay: autoplayTimer and the live timers after it
startAutoplay(timer, live) ==
    LET s  == stopAutoplay(timer, live)
        id == NewTimerId(s.live)
    IN  [timer |-> id, live |-> s.live \cup {id}]

StartAutoplay(timer, live) ==
    /\ Cardinality(live) < MaxTimers
    /\ autoplayTimer' = startAutoplay(timer, live).timer
    /\ liveTimers' = startAutoplay(timer, live).live

StopAutoplay ==
    /\ autoplayTimer' = stopAutoplay(autoplayTimer, liveTimers).timer
    /\ liveTimers' = stopAutoplay(autoplayTimer, liveTimers).live

\* carousel.offsetWidth, and the clientX values the pointer events carry
CarouselWidth == 100
XPositions == {0, 18, 37}

\* endSwipe committing at the threshold as well
SwipeTarget_inclusive(clientX) ==
    LET moved == clientX - startX IN
    IF moved * 100 >= 18 * CarouselWidth THEN currentIndex - 1
    ELSE IF moved * 100 <= -(18 * CarouselWidth) THEN currentIndex + 1
    ELSE currentIndex

\* endSwipe, lines 176-180: the index handed to goToSlide
SwipeTarget(clientX) ==
    LET moved == clientX - startX IN
    IF moved * 100 > 18 * CarouselWidth THEN currentIndex - 1
    ELSE IF moved * 100 < -(18 * CarouselWidth) THEN currentIndex + 1
    ELSE currentIndex

\* initCarousel: createDots, goToSlide(0), startAutoplay
initCarousel ==
    /\ GoTo(0)
    /\ StartAutoplay(autoplayTimer, liveTimers)
    /\ UNCHANGED <<slideCount, pointerDown, startX, swipeMoved, hovering>>

(***************************************************************************)
(* More of String.prototype.                                               *)
(***************************************************************************)
\* String.prototype.includes(sub)
Includes(s, sub) ==
    \E i \in 0..(Len(s) - Len(sub)) : SubSeq(s, i + 1, i + Len(sub)) = sub

UpperCaseLetters ==
    <<"A","B","C","D","E","F","G","H","I","J","K","L","M",
      "N","O","P","Q","R","S","T","U","V","W","X","Y","Z">>
LowerCaseLetters ==
    <<"a","b","c","d","e","f","g","h","i","j","k","l","m",
      "n","o","p","q","r","s","t","u","v","w","x","y","z">>

\* the lower-case form of each upper-case letter
LowerCaseOf ==
    [c \in { UpperCaseLetters[k] : k \in 1..Len(UpperCaseLetters) } |->
        LowerCaseLetters[CHOOSE k \in 1..Len(UpperCaseLetters) :
                             UpperCaseLetters[k] = c]]

\* String.prototype.toLowerCase(): the characters of the dataset and of the
\* inputs other than A-Z have no lower-case form of their own
ToLowerCase(s) ==
    [i \in 1..Len(s) |->
        IF s[i] \in DOMAIN LowerCaseOf THEN LowerCaseOf[s[i]] ELSE s[i]]

\* white space String.prototype.trim() strips: space, ideographic space
WhiteSpace == { " ", "u3000" }

\* String.prototype.trim()
RECURSIVE Trim(_)
Trim(s) ==
    IF s = <<>> THEN s
    ELSE IF Head(s) \in WhiteSpace THEN Trim(Tail(s))
    ELSE IF s[Len(s)] \in WhiteSpace THEN Trim(SubSeq(s, 1, Len(s) - 1))
    ELSE s

\* the elements of a sequence
Range(s) == { s[i] : i \in 1..Len(s) }

(***************************************************************************)
(* Results page: CITY_DATA, DUMMY_SPOTS, the prefSelect change handler and *)
(* runResultsSearch.                                                       *)
(***************************************************************************)
Aichi      == <<"u611b","u77e5","u770c">>           \* Aichi-ken
Kyoto      == <<"u4eac","u90fd","u5e9c">>           \* Kyoto-fu
Aomori     == <<"u9752","u68ee","u770c">>           \* Aomori-ken
Nagoya     == <<"u540d","u53e4","u5c4b","u5e02">>   \* Nagoya-shi
Okazaki    == <<"u5ca1","u5d0e","u5e02">>           \* Okazaki-shi
Toyohashi  == <<"u8c4a","u6a4b","u5e02">>           \* Toyohashi-shi
Tokai      == <<"u6771","u6d77","u5e02">>           \* Tokai-shi
KyotoCity  == <<"u4eac","u90fd","u5e02">>           \* Kyoto-shi
Uji        == <<"u5b87","u6cbb","u5e02">>           \* Uji-shi
Kameoka    == <<"u4e80","u5ca1","u5e02">>           \* Kameoka-shi
AomoriCity == <<"u9752","u68ee","u5e02">>           \* Aomori-shi
Hirosaki   == <<"u5f18","u524d","u5e02">>           \* Hirosaki-shi
Hachinohe  == <<"u516b","u6238","u5e02">>           \* Hachinohe-shi

CITY_DATA ==
    [pref \in {Aichi, Kyoto, Aomori} |->
        IF pref = Aichi THEN <<Nagoya, Okazaki, Toyohashi, Tokai>>
        ELSE IF pref = Kyoto THEN <<KyotoCity, Uji, Kameoka>>
        ELSE <<AomoriCity, Hirosaki, Hachinohe>>]

\* CITY_DATA[pref] || []
CitiesOf(pref) ==
    IF pref \in DOMAIN CITY_DATA THEN CITY_DATA[pref] ELSE <<>>

DUMMY_SPOTS ==
    << [id |-> <<"s","1">>, category |-> "crafts",
        title  |-> <<"u85cd","u67d3","u5de5","u623f","u306e","u4f53","u9a13">>,
        region |-> <<"u611b","u77e5","u770c","/","u6771","u6d77","u5e02">>,
        desc   |-> <<"u85cd","u306e","u6df1","u3044","u9752","u3092","u81ea",
                     "u5206","u306e","u624b","u3067">>],
       [id |-> <<"s","2">>, category |-> "festival",
        title  |-> <<"u590f","u796d","u308a","u306e","u592a","u9f13">>,
        region |-> <<"u4eac","u90fd","u5e9c","/","u4eac","u90fd","u5e02">>,
        desc   |-> <<"u97ff","u304f","u592a","u9f13","u3068","u7df4","u308a",
                     "u6b69","u304d">>],
       [id |-> <<"s","3">>, category |-> "food",
        title  |-> <<"u90f7","u571f","u6599","u7406","u6559","u5ba4">>,
        region |-> <<"u9752","u68ee","u770c","/","u5f18","u524d","u5e02">>,
        desc   |-> <<"u5b63","u7bc0","u306b","u5bc4","u308a","u6dfb","u3046",
                     "u5473">>],
       [id |-> <<"s","4">>, category |-> "architecture",
        title  |-> <<"u753a","u5bb6","u5efa","u7bc9","u3081","u3050","u308a">>,
        region |-> <<"u4eac","u90fd","u5e9c","/","u5b87","u6cbb","u5e02">>,
        desc   |-> <<"u53e4","u3044","u753a","u5bb6","u306e","u610f","u5320",
                     "u3092","u5b66","u3076">>],
       [id |-> <<"s","5">>, category |-> "experience",
        title  |-> <<"u9676","u82b8","u306e","u91cc","u306e","u5de5","u623f",
                     "u8a2a","u554f">>,
        region |-> <<"u611b","u77e5","u770c","/","u5ca1","u5d0e","u5e02">>,
        desc   |-> <<"u571f","u3068","u706b","u306e","u7f8e","u3092","u4f53",
                     "u9a13">>],
       [id |-> <<"s","6">>, category |-> "folklore",
        title  |-> <<"u4f1d","u627f","u8a9e","u308a","u306e","u591c">>,
        region |-> <<"u9752","u68ee","u770c","/","u9752","u68ee","u5e02">>,
        desc   |-> <<"u8a9e","u308a","u90e8","u304c","u7d99","u3050","u7269",
                     "u8a9e">>] >>

\* the ids of a list of spots, in the order of the list
IdsOf(list) == [i \in 1..Len(list) |-> list[i].id]

\* what a grid holds after a list was rendered into it: the cards, or the
\* one paragraph that says there is none
Rendered(list) == [cards |-> IdsOf(list), message |-> list = <<>>]

\* the prefSelect change handler leaving #citySelect as it is when the
\* prefecture has no cities
prefChange_keepsCityList(pref) ==
    LET cities == CitiesOf(pref) IN
    IF Len(cities) > 0
    THEN [options |-> cities, value |-> cities[1], disabled |-> FALSE]
    ELSE [options |-> cityOptions, value |-> cityValue,
          disabled |-> cityDisabled]

\* the prefSelect change handler: the options, the value and the disabled
\* flag it leaves #citySelect with (a select shows its first option when
\* none is selected)
prefChange(pref) ==
    LET cities == CitiesOf(pref) IN
    IF Len(cities) > 0
    THEN [options |-> cities, value |-> cities[1], disabled |-> FALSE]
    ELSE [options |-> <<EmptyStr>>, value |-> EmptyStr, disabled |-> TRUE]

\* runResultsSearch, line 295
CityCriterion(value, disabled) ==
    IF ~disabled /\ value # EmptyStr THEN value ELSE EmptyStr

\* runResultsSearch, lines 309-316
FilterKeyword(list, kw) ==
    IF kw # EmptyStr
    THEN LET k == ToLowerCase(kw)
             Test(s) == \/ Includes(ToLowerCase(s.title), k)
                        \/ Includes(ToLowerCase(s.desc), k)
                        \/ Includes(ToLowerCase(s.region), k)
         IN  SelectSeq(list, Test)
    ELSE list

\* runResultsSearch, lines 317-319
FilterPref(list, pref) ==
    IF pref # EmptyStr
    THEN LET Test(s) == StartsWith(s.region, pref) IN SelectSeq(list, Test)
    ELSE list

\* runResultsSearch, lines 320-322
FilterCity(list, city) ==
    IF city # EmptyStr
    THEN LET Test(s) == Includes(s.region, <<"/">> \o city)
         IN  SelectSeq(list, Test)
    ELSE list

\* runResultsSearch, lines 323-325
FilterCats(list, selectedCats) ==
    IF selectedCats # {}
    THEN LET Test(s) == s.category \in selectedCats IN SelectSeq(list, Test)
    ELSE list

\* runResultsSearch without the city filter
runResultsSearch_noCityFilter(keyword, pref, city, disabled, cats) ==
    Rendered(FilterCats(FilterPref(FilterKeyword(DUMMY_SPOTS, Trim(keyword)),
                                   pref), cats))

\* runResultsSearch: what it leaves in #resultsGrid, given the values of the
\* form's controls
runResultsSearch(keyword, pref, city, disabled, cats) ==
    LET kw == Trim(keyword)
        c  == CityCriterion(city, disabled)
    IN  Rendered(FilterCats(FilterCity(FilterPref(
            FilterKeyword(DUMMY_SPOTS, kw), pref), c), cats))

\* runResultsSearch on the form as a step leaves it
RunResultsSearch ==
    resultsGrid' = runResultsSearch(resultsKeyword', prefValue', cityValue',
                                    cityDisabled', checkedCats')

(***************************************************************************)
(* Map page: SPOT_COORDS, circleState and renderCircleResults.             *)
(***************************************************************************)
SPOT_COORDS ==
    [id \in SpotIds |->
        IF id = <<"s","1">> THEN [x |-> 260, y |-> 200]
        ELSE IF id = <<"s","2">> THEN [x |-> 520, y |-> 240]
        ELSE IF id = <<"s","3">> THEN [x |-> 200, y |-> 140]
        ELSE IF id = <<"s","4">> THEN [x |-> 500, y |-> 260]
        ELSE IF id = <<"s","5">> THEN [x |-> 320, y |-> 220]
        ELSE [x |-> 180, y |-> 120]]

\* circleState as the script initialises it
InitialCircle == [x |-> 300, y |-> 200, r |-> 80]

\* the integer part of Math.sqrt(n)
FloorSqrt(n) == CHOOSE k \in 0..n : k * k <= n /\ n < (k + 1) * (k + 1)

\* Math.sqrt(n) <= r for integers n >= 0 and r: the root is below r, or it
\* is r exactly
SqrtAtMost(n, r) ==
    \/ FloorSqrt(n) < r
    \/ FloorSqrt(n) = r /\ FloorSqrt(n) * FloorSqrt(n) = n

\* renderCircleResults with the boundary of the circle left out
renderCircleResults_openDisc(circle) ==
    LET Test(s) ==
            LET dx == SPOT_COORDS[s.id].x - circle.x
                dy == SPOT_COORDS[s.id].y - circle.y
            IN  s.id \in DOMAIN SPOT_COORDS
                /\ FloorSqrt(dx * dx + dy * dy) < circle.r
    IN  Rendered(SelectSeq(DUMMY_SPOTS, Test))

\* renderCircleResults: what it leaves in #mapResultsGrid
renderCircleResults(circle) ==
    LET Test(s) ==
            LET dx == SPOT_COORDS[s.id].x - circle.x
                dy == SPOT_COORDS[s.id].y - circle.y
            IN  s.id \in DOMAIN SPOT_COORDS
                /\ SqrtAtMost(dx * dx + dy * dy, circle.r)
    IN  Rendered(SelectSeq(DUMMY_SPOTS, Test))

(***************************************************************************)
(* Inputs.  The markup is not part of the source; the fragments with       *)
(* which a session may start, or which the user may type, are chosen to    *)
(* cover every branch of handleHashChange.                                 *)
(***************************************************************************)
UnknownSpotId == <<"s","9">>

StartFragments ==
    { EmptyStr, TopTok, ResultsTok, MapTok, DetailTok,
      DetailToken(<<"s","1">>), DetailToken(ArSpotId),
      DetailToken(UnknownSpotId), DetailToken(EmptyStr),
      DetailToken(<<"s","1",":","x">>),
      <<"c","o","n","s","t","r","u","c","t","o","r">>,
      <<"f","o","o">> }

\* fragments the user types into the address bar during the session
TypedFragments ==
    { DetailTok, DetailToken(UnknownSpotId),
      <<"c","o","n","s","t","r","u","c","t","o","r">> }

\* spots whose card button the user presses
CardSpots == { <<"s","1">>, ArSpotId }

\* text of the header search input, data-keyword of the keyword buttons,
\* data-category of the category buttons, values of the category boxes
HeaderKeywords  == { EmptyStr, <<"k">> }
KeywordButtons  == { <<"k">> }
CategoryButtons == { "crafts" }
CategoryBoxes   == { "crafts", "festival", "food", "architecture",
                     "experience", "folklore" }

\* texts the user types into #resultsKeyword: none, two words of the
\* dataset, one of them with white space around it, a word that is in a
\* title and in a description, a word of two regions, an upper-case letter
Tougei    == <<"u9676","u82b8">>
Taiken    == <<"u4f53","u9a13">>
KyotoWord == <<"u4eac","u90fd">>
TypedKeywords ==
    { EmptyStr, Tougei, <<" ">> \o Tougei \o <<"u3000">>, Taiken, KyotoWord,
      <<"K">> }

\* values of the options of #prefSelect: none chosen, the prefectures of
\* CITY_DATA, and one CITY_DATA does not list (Tokyo-to).  The option the
\* select shows when the script starts is the markup's, or the one the
\* browser restores on a reload; no change event comes with either, so
\* #citySelect is then still as the markup has it.
Tokyo == <<"u6771","u4eac","u90fd">>
PrefOptions == { EmptyStr, Aichi, Kyoto, Aomori, Tokyo }

\* category boxes the user toggles by hand
ToggledBoxes == { "crafts", "experience" }

\* #citySelect in the markup: one option without a value, disabled
MarkupCitySelect ==
    [options |-> <<EmptyStr>>, value |-> EmptyStr, disabled |-> TRUE]

\* a grid in the markup: no card, no message
EmptyGrid == [cards |-> <<>>, message |-> FALSE]

\* hidden attributes of the pages in the markup
InitialHidden == { [key \in PageKeys |-> FALSE], showPage(TopTok) }

Init ==
    /\ phase = "loading"
    /\ \E f \in StartFragments : history = <<f>>
    /\ pos = 1
    /\ hidden \in InitialHidden
    /\ hashQ = 0
    /\ timerQ = <<>>
    /\ navQ = 0
    /\ detailSpotId = EmptyStr
    /\ detailView = [kind |-> "initial", id |-> EmptyStr]
    /\ arDisplay = "initial"
    /\ resultsKeyword = EmptyStr
    /\ checkedCats = {}
    /\ prefValue \in PrefOptions
    /\ cityOptions = MarkupCitySelect.options
    /\ cityValue = MarkupCitySelect.value
    /\ cityDisabled = MarkupCitySelect.disabled
    /\ resultsGrid = EmptyGrid
    /\ circleState = InitialCircle
    /\ mapResultsGrid = EmptyGrid
    /\ slideCount \in 1..MaxSlides
    /\ currentIndex = 0
    /\ goToArg = 0
    /\ autoplayTimer = 0
    /\ liveTimers = {}
    /\ pointerDown = FALSE
    /\ startX = 0
    /\ swipeMoved = 0
    /\ hovering = FALSE

(***************************************************************************)
(* Start-up.                                                               *)
(***************************************************************************)
\* DOMContentLoaded handler: handleHashChange, initCarousel,
\* runResultsSearch.  Its other calls, renderPins and renderCircle, draw the
\* pins and the circle; neither writes circleState or #mapResultsGrid.
DOMContentLoaded ==
    /\ phase = "loading"
    /\ phase' = "ready"
    /\ handleHashChange(Fragment)
    /\ initCarousel
    /\ UNCHANGED <<resultsKeyword, checkedCats, prefValue, cityOptions,
                   cityValue, cityDisabled>>
    /\ RunResultsSearch
    /\ UNCHANGED <<history, pos, hashQ, timerQ, navQ, mapVars>>

(***************************************************************************)
(* Handlers that navigate.                                                 *)
(***************************************************************************)
\* globalSearchForm submit
GlobalSearchSubmit(keyword) ==
    /\ phase = "ready"
    /\ SetLocationHash(HashResults)
    /\ SetTimeout([kind |-> "search", arg |-> keyword])
    /\ UNCHANGED <<phase, hidden, navQ, detailVars, formVars, mapVars, carouselVars>>

\* #goRegionSearch click
GoRegionSearchClick ==
    /\ phase = "ready"
    /\ SetLocationHash(HashResults)
    /\ SetTimeout([kind |-> "focus", arg |-> EmptyStr])
    /\ UNCHANGED <<phase, hidden, navQ, detailVars, formVars, mapVars, carouselVars>>

\* #goMapSearch click
GoMapSearchClick ==
    /\ phase = "ready"
    /\ SetLocationHash(HashMap)
    /\ UNCHANGED <<phase, hidden, timerQ, navQ, detailVars, formVars,
                   mapVars, carouselVars>>

\* .category__btn click (the buttons are on the top page)
CategoryClick(category) ==
    /\ phase = "ready"
    /\ ~hidden[TopTok]
    /\ SetLocationHash(HashResults)
    /\ SetTimeout([kind |-> "category", arg |-> category])
    /\ UNCHANGED <<phase, hidden, navQ, detailVars, formVars, mapVars, carouselVars>>

\* .keyword click (the buttons are on the top page)
KeywordClick(kw) ==
    /\ phase = "ready"
    /\ ~hidden[TopTok]
    /\ SetLocationHash(HashResults)
    /\ SetTimeout([kind |-> "keyword", arg |-> kw])
    /\ UNCHANGED <<phase, hidden, navQ, detailVars, formVars, mapVars, carouselVars>>

\* #resultsGoMap click (the button is on the results page)
ResultsGoMapClick ==
    /\ phase = "ready"
    /\ ~hidden[ResultsTok]
    /\ SetLocationHash(HashMap)
    /\ UNCHANGED <<phase, hidden, timerQ, navQ, detailVars, formVars,
                   mapVars, carouselVars>>

\* .card__btn click of a card of the results grid
CardDetailClick(id) ==
    /\ phase = "ready"
    /\ ~hidden[ResultsTok]
    /\ id \in Range(resultsGrid.cards)
    /\ SetLocationHash(DetailToken(id))
    /\ UNCHANGED <<phase, hidden, timerQ, navQ, detailVars, formVars,
                   mapVars, carouselVars>>

\* #detailBackBtn click (the button is on the detail page)
DetailBackClick ==
    /\ phase = "ready"
    /\ ~hidden[DetailTok]
    /\ IF Len(history) > 1
       THEN /\ navQ < MaxTasks
            /\ navQ' = navQ + 1
            /\ UNCHANGED <<history, pos, hashQ>>
       ELSE /\ SetLocationHash(HashTop)
            /\ UNCHANGED navQ
    /\ UNCHANGED <<phase, hidden, timerQ, detailVars, formVars, mapVars, carouselVars>>

(***************************************************************************)
(* Navigation from outside the page.                                       *)
(***************************************************************************)
\* the user edits the fragment in the address bar
UserEntersFragment(fragment) ==
    /\ phase = "ready"
    /\ fragment # Fragment
    /\ SetLocationHash(fragment)
    /\ UNCHANGED <<phase, hidden, timerQ, navQ, detailVars, formVars,
                   mapVars, carouselVars>>

\* a traversal of the session history by delta, if there is such an entry
Traverse(delta) ==
    IF pos + delta \in 1..Len(history)
    THEN /\ pos' = pos + delta
         /\ hashQ' = hashQ + 1
         /\ UNCHANGED history
    ELSE UNCHANGED <<history, pos, hashQ>>

\* the browser's back button
BrowserBack ==
    /\ phase = "ready"
    /\ pos > 1
    /\ hashQ < MaxTasks
    /\ Traverse(-1)
    /\ UNCHANGED <<phase, hidden, timerQ, navQ, detailVars, formVars,
                   mapVars, carouselVars>>

\* the browser's forward button
BrowserForward ==
    /\ phase = "ready"
    /\ pos < Len(history)
    /\ hashQ < MaxTasks
    /\ Traverse(1)
    /\ UNCHANGED <<phase, hidden, timerQ, navQ, detailVars, formVars,
                   mapVars, carouselVars>>

(***************************************************************************)
(* Tasks the event loop runs.                                              *)
(***************************************************************************)
\* the hashchange listener, with a showPage that rewinds the carousel
RunHashChange_rewindsCarousel ==
    /\ hashQ > 0
    /\ hashQ' = hashQ - 1
    /\ handleHashChange(Fragment)
    /\ GoTo(0)
    /\ UNCHANGED <<phase, history, pos, timerQ, navQ, formVars, mapVars,
                   slideCount, autoplayTimer, liveTimers, pointerDown, startX,
                   swipeMoved, hovering>>

\* the hashchange listener
RunHashChange ==
    /\ hashQ > 0
    /\ hashQ' = hashQ - 1
    /\ handleHashChange(Fragment)
    /\ UNCHANGED <<phase, history, pos, timerQ, navQ, formVars, mapVars, carouselVars>>

\* the traversal history.back() asked for
RunTraverse ==
    /\ navQ > 0
    /\ hashQ < MaxTasks
    /\ navQ' = navQ - 1
    /\ Traverse(-1)
    /\ UNCHANGED <<phase, hidden, timerQ, detailVars, formVars, mapVars, carouselVars>>

\* the oldest zero-delay callback: it fills the results form (the keyword
\* input, the category boxes) and calls runResultsSearch, or it focuses
\* #prefSelect
RunTimer ==
    /\ timerQ # <<>>
    /\ timerQ' = Tail(timerQ)
    /\ LET cb == Head(timerQ) IN
       /\ resultsKeyword' =
              IF cb.kind \in {"search", "keyword"} THEN cb.arg
              ELSE resultsKeyword
       /\ checkedCats' =
              IF cb.kind = "category"
              THEN { b \in CategoryBoxes : b = cb.arg }
              ELSE checkedCats
       /\ UNCHANGED <<prefValue, cityOptions, cityValue, cityDisabled>>
       /\ IF cb.kind = "focus"
          THEN UNCHANGED resultsGrid
          ELSE RunResultsSearch
    /\ UNCHANGED <<phase, history, pos, hidden, hashQ, navQ, detailVars,
                   mapVars, carouselVars>>

RouterNext ==
    \/ DOMContentLoaded
    \/ \E keyword \in HeaderKeywords : GlobalSearchSubmit(keyword)
    \/ GoRegionSearchClick
    \/ GoMapSearchClick
    \/ \E category \in CategoryButtons : CategoryClick(category)
    \/ \E kw \in KeywordButtons : KeywordClick(kw)
    \/ ResultsGoMapClick
    \/ \E id \in CardSpots : CardDetailClick(id)
    \/ DetailBackClick
    \/ \E fragment \in TypedFragments : UserEntersFragment(fragment)
    \/ BrowserBack
    \/ BrowserForward
    \/ RunHashChange
    \/ RunTraverse
    \/ RunTimer

(***************************************************************************)
(* Carousel handlers.  The carousel is part of the top page: the user can  *)
(* reach it only while that page is shown.  The interval timer fires       *)
(* whatever page is shown.                                                 *)
(***************************************************************************)
CarouselReachable ==
    /\ phase = "ready"
    /\ ~hidden[TopTok]

\* prevBtn click: prevSlide(); startAutoplay()
PrevClick ==
    /\ CarouselReachable
    /\ GoTo(currentIndex - 1)
    /\ StartAutoplay(autoplayTimer, liveTimers)
    /\ UNCHANGED <<slideCount, pointerDown, startX, swipeMoved, hovering>>
    /\ UNCHANGED <<routerVars, detailVars, formVars, mapVars>>

\* nextBtn click: nextSlide(); startAutoplay()
NextClick ==
    /\ CarouselReachable
    /\ GoTo(currentIndex + 1)
    /\ StartAutoplay(autoplayTimer, liveTimers)
    /\ UNCHANGED <<slideCount, pointerDown, startX, swipeMoved, hovering>>
    /\ UNCHANGED <<routerVars, detailVars, formVars, mapVars>>

\* click of the dot createDots made for slide i: goToSlide(i)
DotClick(i) ==
    /\ CarouselReachable
    /\ GoTo(i)
    /\ UNCHANGED <<slideCount, autoplayTimer, liveTimers, pointerDown, startX,
                   swipeMoved, hovering>>
    /\ UNCHANGED <<routerVars, detailVars, formVars, mapVars>>

\* mouseenter: stopAutoplay
MouseEnter ==
    /\ CarouselReachable
    /\ ~hovering
    /\ hovering' = TRUE
    /\ StopAutoplay
    /\ UNCHANGED <<slideCount, currentIndex, goToArg, pointerDown, startX,
                   swipeMoved>>
    /\ UNCHANGED <<routerVars, detailVars, formVars, mapVars>>

\* mouseleave: startAutoplay
MouseLeave ==
    /\ phase = "ready"
    /\ hovering
    /\ hovering' = FALSE
    /\ StartAutoplay(autoplayTimer, liveTimers)
    /\ UNCHANGED <<slideCount, currentIndex, goToArg, pointerDown, startX,
                   swipeMoved>>
    /\ UNCHANGED <<routerVars, detailVars, formVars, mapVars>>

\* pointerdown
PointerDown(clientX) ==
    /\ CarouselReachable
    /\ pointerDown' = TRUE
    /\ startX' = clientX
    /\ StopAutoplay
    /\ UNCHANGED <<slideCount, currentIndex, goToArg, swipeMoved, hovering>>
    /\ UNCHANGED <<routerVars, detailVars, formVars, mapVars>>

\* endSwipe clearing pointerDown only when the drag commits
endSwipe_snapBackKeepsFlag(clientX) ==
    IF ~pointerDown
    THEN UNCHANGED <<currentIndex, goToArg, autoplayTimer, liveTimers,
                     pointerDown, swipeMoved>>
    ELSE /\ pointerDown' = (SwipeTarget(clientX) = currentIndex)
         /\ swipeMoved' = clientX - startX
         /\ GoTo(SwipeTarget(clientX))
         /\ StartAutoplay(autoplayTimer, liveTimers)

\* endSwipe(e), the listener of pointerup, pointercancel and pointerleave
endSwipe(clientX) ==
    IF ~pointerDown
    THEN UNCHANGED <<currentIndex, goToArg, autoplayTimer, liveTimers,
                     pointerDown, swipeMoved>>
    ELSE /\ pointerDown' = FALSE
         /\ swipeMoved' = clientX - startX
         /\ GoTo(SwipeTarget(clientX))
         /\ StartAutoplay(autoplayTimer, liveTimers)

PointerUp(clientX) ==
    /\ phase = "ready"
    /\ endSwipe(clientX)
    /\ UNCHANGED <<slideCount, startX, hovering>>
    /\ UNCHANGED <<routerVars, detailVars, formVars, mapVars>>

PointerCancel(clientX) ==
    /\ phase = "ready"
    /\ endSwipe(clientX)
    /\ UNCHANGED <<slideCount, startX, hovering>>
    /\ UNCHANGED <<routerVars, detailVars, formVars, mapVars>>

PointerLeave(clientX) ==
    /\ phase = "ready"
    /\ endSwipe(clientX)
    /\ UNCHANGED <<slideCount, startX, hovering>>
    /\ UNCHANGED <<routerVars, detailVars, formVars, mapVars>>

\* window resize: goToSlide(currentIndex)
Resize ==
    /\ phase = "ready"
    /\ GoTo(currentIndex)
    /\ UNCHANGED <<slideCount, autoplayTimer, liveTimers, pointerDown, startX,
                   swipeMoved, hovering>>
    /\ UNCHANGED <<routerVars, detailVars, formVars, mapVars>>

\* an interval timer fires: nextSlide
AutoplayTick(timer) ==
    /\ phase = "ready"
    /\ timer \in liveTimers
    /\ GoTo(currentIndex + 1)
    /\ UNCHANGED <<slideCount, autoplayTimer, liveTimers, pointerDown, startX,
                   swipeMoved, hovering>>
    /\ UNCHANGED <<routerVars, detailVars, formVars, mapVars>>

CarouselNext ==
    \/ PrevClick
    \/ NextClick
    \/ \E i \in 0..(slideCount - 1) : DotClick(i)
    \/ MouseEnter
    \/ MouseLeave
    \/ \E clientX \in XPositions : PointerDown(clientX)
    \/ \E clientX \in XPositions : PointerUp(clientX)
    \/ \E clientX \in XPositions : PointerCancel(clientX)
    \/ \E clientX \in XPositions : PointerLeave(clientX)
    \/ Resize
    \/ \E timer \in liveTimers : AutoplayTick(timer)

(***************************************************************************)
(* Results form.  Its controls are on the results page.                    *)
(***************************************************************************)
ResultsReachable ==
    /\ phase = "ready"
    /\ ~hidden[ResultsTok]

\* the user edits #resultsKeyword
KeywordInput(text) ==
    /\ ResultsReachable
    /\ text # resultsKeyword
    /\ resultsKeyword' = text
    /\ UNCHANGED <<checkedCats, prefValue, cityOptions, cityValue,
                   cityDisabled, resultsGrid>>
    /\ UNCHANGED <<routerVars, detailVars, mapVars, carouselVars>>

\* the user picks an option of #prefSelect: the change handler
PrefChange(pref) ==
    /\ ResultsReachable
    /\ pref # prefValue
    /\ prefValue' = pref
    /\ cityOptions' = prefChange(pref).options
    /\ cityValue' = prefChange(pref).value
    /\ cityDisabled' = prefChange(pref).disabled
    /\ UNCHANGED <<resultsKeyword, checkedCats, resultsGrid>>
    /\ UNCHANGED <<routerVars, detailVars, mapVars, carouselVars>>

\* the user picks an option of #citySelect (no listener)
CityChange(city) ==
    /\ ResultsReachable
    /\ ~cityDisabled
    /\ city \in Range(cityOptions)
    /\ city # cityValue
    /\ cityValue' = city
    /\ UNCHANGED <<resultsKeyword, checkedCats, prefValue, cityOptions,
                   cityDisabled, resultsGrid>>
    /\ UNCHANGED <<routerVars, detailVars, mapVars, carouselVars>>

\* the user toggles a category box (no listener)
CategoryToggle(box) ==
    /\ ResultsReachable
    /\ checkedCats' = IF box \in checkedCats THEN checkedCats \ {box}
                      ELSE checkedCats \cup {box}
    /\ UNCHANGED <<resultsKeyword, prefValue, cityOptions, cityValue,
                   cityDisabled, resultsGrid>>
    /\ UNCHANGED <<routerVars, detailVars, mapVars, carouselVars>>

\* resultsSearchForm submit: runResultsSearch
ResultsSubmit ==
    /\ ResultsReachable
    /\ UNCHANGED <<resultsKeyword, checkedCats, prefValue, cityOptions,
                   cityValue, cityDisabled>>
    /\ RunResultsSearch
    /\ UNCHANGED <<routerVars, detailVars, mapVars, carouselVars>>

SearchNext ==
    \/ \E text \in TypedKeywords : KeywordInput(text)
    \/ \E pref \in PrefOptions : PrefChange(pref)
    \/ \E city \in Range(cityOptions) : CityChange(city)
    \/ \E box \in ToggledBoxes : CategoryToggle(box)
    \/ ResultsSubmit

\* the results form alone, on a session that starts on the results page
InitSearch ==
    /\ Init
    /\ history = <<ResultsTok>>
    /\ hidden = showPage(TopTok)
    /\ slideCount = 1

SpecSearch == InitSearch /\ [][DOMContentLoaded \/ SearchNext]_vars

(***************************************************************************)
(* renderCircleResults as a function of the circle.  No handler of the     *)
(* script writes circleState and none calls renderCircleResults; here the  *)
(* circle is any of a set of circles and the function is called on it.     *)
(***************************************************************************)
CircleXs    == { 180, 260, 300, 320, 520 }
CircleYs    == { 120, 200, 220, 240 }
CircleRadii == { 0, 20, 40, 80, 240 }
Circles ==
    { [x |-> cx, y |-> cy, r |-> cr] :
          cx \in CircleXs, cy \in CircleYs, cr \in CircleRadii }

RenderCircleResultsCall ==
    /\ phase = "ready"
    /\ mapResultsGrid' = renderCircleResults(circleState)
    /\ UNCHANGED circleState
    /\ UNCHANGED <<routerVars, detailVars, formVars, carouselVars>>

InitRange ==
    /\ phase = "loading"
    /\ history = <<MapTok>>
    /\ pos = 1
    /\ hidden = showPage(TopTok)
    /\ hashQ = 0
    /\ timerQ = <<>>
    /\ navQ = 0
    /\ detailSpotId = EmptyStr
    /\ detailView = [kind |-> "initial", id |-> EmptyStr]
    /\ arDisplay = "initial"
    /\ resultsKeyword = EmptyStr
    /\ checkedCats = {}
    /\ prefValue = EmptyStr
    /\ cityOptions = MarkupCitySelect.options
    /\ cityValue = MarkupCitySelect.value
    /\ cityDisabled = MarkupCitySelect.disabled
    /\ resultsGrid = EmptyGrid
    /\ circleState \in Circles
    /\ mapResultsGrid = EmptyGrid
    /\ slideCount = 1
    /\ currentIndex = 0
    /\ goToArg = 0
    /\ autoplayTimer = 0
    /\ liveTimers = {}
    /\ pointerDown = FALSE
    /\ startX = 0
    /\ swipeMoved = 0
    /\ hovering = FALSE

SpecRange == InitRange /\ [][DOMContentLoaded \/ RenderCircleResultsCall]_vars

\* the carousel alone, on a session that starts on the top page
InitCarousel ==
    /\ Init
    /\ history \in { <<EmptyStr>>, <<TopTok>>, <<ResultsTok>> }
    /\ prefValue = EmptyStr

SpecCarousel == InitCarousel /\ [][DOMContentLoaded \/ CarouselNext]_vars

\* goToSlide called directly with any index, beside the carousel's handlers
GoToSlideCall(index) ==
    /\ phase = "ready"
    /\ GoTo(index)
    /\ UNCHANGED <<slideCount, autoplayTimer, liveTimers, pointerDown, startX,
                   swipeMoved, hovering>>
    /\ UNCHANGED <<routerVars, detailVars, formVars, mapVars>>

SpecGoTo ==
    InitCarousel /\ [][\/ DOMContentLoaded
                       \/ CarouselNext
                       \/ \E index \in (-MaxIndex)..MaxIndex : GoToSlideCall(index)]_vars

\* the router alone: the carousel stays as initCarousel leaves it, and no
\* prefecture is chosen
InitRouter == Init /\ slideCount = MaxSlides /\ prefValue = EmptyStr

SpecRouter == InitRouter /\ [][RouterNext]_vars

\* the detail view alone: sessions that reach the detail page by typed
\* fragments and leave it by the back buttons
DetailFragments ==
    { DetailTok, DetailToken(<<"s","1">>), DetailToken(ArSpotId),
      DetailToken(UnknownSpotId) }

InitDetail ==
    /\ InitRouter
    /\ history \in { <<TopTok>>, <<DetailTok>>, <<DetailToken(ArSpotId)>> }
    /\ hidden = showPage(TopTok)

SpecDetail ==
    InitDetail /\ [][\/ DOMContentLoaded
                      \/ \E fragment \in DetailFragments :
                             UserEntersFragment(fragment)
                      \/ DetailBackClick
                      \/ BrowserBack
                      \/ BrowserForward
                      \/ RunHashChange
                      \/ RunTraverse]_vars

\* page switches while the carousel runs: a session that starts on the top
\* page, goes to the map or to a detail page and back
SwitchFragments == { MapTok, DetailToken(ArSpotId) }

InitSwitch ==
    /\ InitRouter
    /\ history = <<TopTok>>
    /\ hidden = showPage(TopTok)

SpecSwitch ==
    InitSwitch /\ [][\/ DOMContentLoaded
                      \/ \E fragment \in SwitchFragments :
                             UserEntersFragment(fragment)
                      \/ BrowserBack
                      \/ RunHashChange
                      \/ CarouselNext]_vars

\* the whole page
Next == RouterNext \/ CarouselNext \/ SearchNext

Spec == Init /\ [][Next]_vars

(***************************************************************************)
(* Properties.                                                             *)
(***************************************************************************)

\* C1: once the page has initialised, exactly one of the four pages is
\* visible and the other three are hidden, whatever the hash is.
C1_ExactlyOnePageVisible ==
    phase = "ready" => Cardinality(Visible) = 1

\* C2: when the router has handled the current token and the token is none
\* of top, results, map and does not start with "detail:", top is the
\* visible page.
C2_FallbackToTop ==
    ( /\ phase = "ready"
      /\ hashQ = 0
      /\ Fragment \notin {TopTok, ResultsTok, MapTok}
      /\ ~StartsWith(Fragment, DetailPrefix) )
    => Visible = {TopTok}

\* C3: when the router has handled a token detail:<id>, detail is the one
\* visible page, showDetail was given exactly <id> (everything after
\* "detail:"), and the view shows that spot if <id> is a dataset id and the
\* not-found placeholder otherwise.
C3_DetailResolution ==
    ( /\ phase = "ready"
      /\ hashQ = 0
      /\ StartsWith(Fragment, DetailPrefix) )
    => LET id == SubSeq(Fragment, Len(DetailPrefix) + 1, Len(Fragment)) IN
       /\ Visible = {DetailTok}
       /\ detailSpotId = id
       /\ detailView = IF id \in SpotIds
                       THEN [kind |-> "spot", id |-> id]
                       ELSE [kind |-> "notfound", id |-> EmptyStr]

\* C4: pressed while no event and no traversal is pending, the detail page's
\* back button asks for the previous entry of the session history when the
\* current entry has one before it, and otherwise sets the token to top, at
\* every position of every history.
C4_BackReturnsOrTop ==
    [][ (DetailBackClick /\ hashQ = 0 /\ navQ = 0) =>
          IF pos > 1
          THEN navQ' = navQ + 1
          ELSE history'[pos'] = TopTok ]_vars

\* C5: a zero-delay callback deferred by a handler that set the token to
\* results runs only when results is the visible page.
C5_DeferredWorkAfterRouter ==
    [][ RunTimer => Visible = {ResultsTok} ]_vars

\* C6: after carousel initialisation 0 <= currentIndex < slideCount, under
\* every handler and under goToSlide called with any integer index.
C6_IndexInRange ==
    phase = "ready" => currentIndex \in 0..(slideCount - 1)

\* goToSlide was called with an index more than one step below 0
C6_Witness ==
    /\ phase = "ready"
    /\ slideCount = MaxSlides
    /\ goToArg < -1
    /\ currentIndex = slideCount - 1

\* C7 as stated: goToSlide(index) leaves currentIndex = index modulo
\* slideCount for every integer index.
C7_WrapIsModular ==
    phase = "ready" => currentIndex = goToArg % slideCount

\* C7 as amended: goToSlide(index) sets currentIndex to index when
\* 0 <= index < slideCount, to slideCount - 1 for every negative index and
\* to 0 for every index >= slideCount; that is index modulo slideCount for
\* -1 <= index <= slideCount.
C7_WrapOneStep ==
    phase = "ready" =>
        /\ goToArg \in 0..(slideCount - 1) => currentIndex = goToArg
        /\ goToArg < 0 => currentIndex = slideCount - 1
        /\ goToArg >= slideCount => currentIndex = 0
        /\ goToArg \in (-1)..slideCount => currentIndex = goToArg % slideCount

\* goToSlide was called with index = slideCount and wrapped to the first slide
C7_Witness ==
    /\ phase = "ready"
    /\ slideCount = MaxSlides
    /\ goToArg = slideCount
    /\ currentIndex = 0

\* C8: at most one autoplay interval timer is live, it is the one
\* autoplayTimer holds, and none is live when autoplayTimer is null.
C8_AtMostOneTimer ==
    /\ Cardinality(liveTimers) <= 1
    /\ liveTimers = IF autoplayTimer = 0 THEN {} ELSE {autoplayTimer}

\* startAutoplay has run again (a step to the previous slide restarted a
\* running autoplay) and one timer is live
C8_Witness ==
    /\ phase = "ready"
    /\ ~hovering
    /\ ~pointerDown
    /\ startX = 0
    /\ goToArg = -1
    /\ autoplayTimer # 0
    /\ liveTimers = {autoplayTimer}

\* C9: while the pointer hovers over the carousel no autoplay timer is live.
C9_HoverPausesAutoplay ==
    hovering => liveTimers = {}

\* C10: immediately after the previous button, the next button or a dot is
\* clicked, an autoplay timer is live.
C10_ManualNavigationRestarts ==
    [][ ( \/ PrevClick
          \/ NextClick
          \/ \E i \in 0..(slideCount - 1) : DotClick(i) )
        => ( autoplayTimer' # 0 /\ liveTimers' = {autoplayTimer'} ) ]_vars

\* C11: when a drag ends (pointerup, pointercancel or pointerleave while
\* pointerDown) with displacement d = clientX - startX on a carousel of width
\* w, the carousel moves to the previous slide if d > 0.18 w and to the next
\* slide if d < -0.18 w, each with wrap, and currentIndex is unchanged
\* otherwise, |d| = 0.18 w included.
C11_DragCommitRule ==
    [][ \A clientX \in XPositions :
          ( /\ pointerDown
            /\ \/ PointerUp(clientX)
               \/ PointerCancel(clientX)
               \/ PointerLeave(clientX) )
          => LET d == clientX - startX IN
             currentIndex' =
                 IF 100 * d > 18 * CarouselWidth
                 THEN (currentIndex - 1) % slideCount
                 ELSE IF 100 * d < -(18 * CarouselWidth)
                 THEN (currentIndex + 1) % slideCount
                 ELSE currentIndex ]_vars

\* a drag has ended with a displacement of exactly 18% of the width, on a
\* slide other than the first, and the carousel snapped back to that slide
C11_Witness ==
    /\ phase = "ready"
    /\ ~pointerDown
    /\ swipeMoved > 0
    /\ swipeMoved * 100 = 18 * CarouselWidth
    /\ goToArg = currentIndex
    /\ currentIndex > 0

\* C12: pointerup, pointercancel and pointerleave each leave pointerDown
\* false when a drag is in progress, and change nothing (currentIndex,
\* pointerDown, the autoplay timer) when none is.
C12_NoStuckDrag ==
    [][ \A clientX \in XPositions :
          ( \/ PointerUp(clientX)
            \/ PointerCancel(clientX)
            \/ PointerLeave(clientX) )
          => IF pointerDown
             THEN pointerDown' = FALSE
             ELSE UNCHANGED <<currentIndex, pointerDown, autoplayTimer,
                              liveTimers>> ]_vars

\* a drag that started at the right-most position has ended to the left of
\* it and pointerDown is false again
C12_Witness ==
    /\ phase = "ready"
    /\ ~pointerDown
    /\ startX = 37
    /\ swipeMoved < 0
    /\ autoplayTimer # 0

\* C13: every search lists exactly the spots of the dataset that satisfy
\* every active criterion, in dataset order: the trimmed keyword, if any, is
\* a case-insensitive substring of title, description or region; the region
\* starts with the prefecture, if one is chosen; the region contains
\* "/<city>", if a city is chosen; the category is one of the checked ones,
\* if any is checked.  No criterion lists all six spots; the keyword
\* U+9676 U+82B8 alone lists s5; the prefecture Kyoto-fu alone lists s2, s4;
\* Aichi-ken with Okazaki-shi lists s5.
C13_ConjunctiveFilter ==
    [][ ( \/ DOMContentLoaded
          \/ ResultsSubmit
          \/ (RunTimer /\ Head(timerQ).kind # "focus") )
        => LET kw   == Trim(resultsKeyword')
               pref == prefValue'
               city == IF cityDisabled' THEN EmptyStr ELSE cityValue'
               cats == checkedCats'
               Satisfies(s) ==
                   /\ kw # EmptyStr =>
                        \/ Includes(ToLowerCase(s.title), ToLowerCase(kw))
                        \/ Includes(ToLowerCase(s.desc), ToLowerCase(kw))
                        \/ Includes(ToLowerCase(s.region), ToLowerCase(kw))
                   /\ pref # EmptyStr => StartsWith(s.region, pref)
                   /\ city # EmptyStr => Includes(s.region, <<"/">> \o city)
                   /\ cats # {} => s.category \in cats
               listed == resultsGrid'.cards
           IN  /\ listed = IdsOf(SelectSeq(DUMMY_SPOTS, Satisfies))
               /\ (kw = EmptyStr /\ pref = EmptyStr /\ city = EmptyStr
                       /\ cats = {})
                  => listed = << <<"s","1">>, <<"s","2">>, <<"s","3">>,
                                 <<"s","4">>, <<"s","5">>, <<"s","6">> >>
               /\ (kw = <<"u9676","u82b8">> /\ pref = EmptyStr
                       /\ city = EmptyStr /\ cats = {})
                  => listed = << <<"s","5">> >>
               /\ (kw = EmptyStr /\ pref = <<"u4eac","u90fd","u5e9c">>
                       /\ city = EmptyStr /\ cats = {})
                  => listed = << <<"s","2">>, <<"s","4">> >>
               /\ (kw = EmptyStr /\ pref = <<"u611b","u77e5","u770c">>
                       /\ city = <<"u5ca1","u5d0e","u5e02">> /\ cats = {})
                  => listed = << <<"s","5">> >> ]_vars

\* a search with the prefecture Aichi-ken and the city Okazaki-shi, no
\* keyword and no category, has listed s5 alone
C13_Witness ==
    /\ phase = "ready"
    /\ resultsKeyword = EmptyStr
    /\ checkedCats = {}
    /\ prefValue = Aichi
    /\ ~cityDisabled
    /\ cityValue = Okazaki
    /\ resultsGrid = [cards |-> << <<"s","5">> >>, message |-> FALSE]

\* C17: whatever prefectures were chosen before, the city criterion a search
\* applies is non-empty only if the chosen prefecture has a non-empty city
\* list and the city is on that list; it is empty when the chosen
\* prefecture has no city list.
C17_CityCriterionValid ==
    LET city == IF ~cityDisabled /\ cityValue # EmptyStr
                THEN cityValue ELSE EmptyStr
        hasCities == /\ prefValue \in DOMAIN CITY_DATA
                     /\ CITY_DATA[prefValue] # <<>>
    IN  /\ city # EmptyStr =>
             /\ hasCities
             /\ \E i \in 1..Len(CITY_DATA[prefValue]) :
                    CITY_DATA[prefValue][i] = city
        /\ ~hasCities => city = EmptyStr

\* a prefecture without a city list is chosen after a search with a city of
\* Kyoto-fu listed s4, and the city criterion is empty again
C17_Witness ==
    /\ phase = "ready"
    /\ prefValue = Tokyo
    /\ cityDisabled
    /\ cityValue = EmptyStr
    /\ resultsGrid = [cards |-> << <<"s","4">> >>, message |-> FALSE]

\* C14: the spots renderCircleResults lists for a circle (cx, cy, r) are
\* exactly those with (x - cx)^2 + (y - cy)^2 <= r^2, the boundary
\* included; the circle (300, 200) of radius 80 lists s1 and s5 and not s2;
\* for a fixed centre a larger radius lists every spot a smaller one lists.
C14_RangeMembership ==
    mapResultsGrid # EmptyGrid =>
        LET cx == circleState.x
            cy == circleState.y
            InRange(r) ==
                { id \in SpotIds :
                    (SPOT_COORDS[id].x - cx) * (SPOT_COORDS[id].x - cx)
                  + (SPOT_COORDS[id].y - cy) * (SPOT_COORDS[id].y - cy)
                    <= r * r }
            listed == Range(mapResultsGrid.cards)
        IN  /\ listed = InRange(circleState.r)
            /\ circleState = [x |-> 300, y |-> 200, r |-> 80] =>
                 /\ <<"s","1">> \in listed
                 /\ <<"s","5">> \in listed
                 /\ <<"s","2">> \notin listed
            /\ \A r \in CircleRadii :
                 /\ r <= circleState.r =>
                      Range(renderCircleResults([circleState
                                EXCEPT !.r = r]).cards) \subseteq listed
                 /\ r >= circleState.r =>
                      listed \subseteq Range(renderCircleResults([circleState
                                EXCEPT !.r = r]).cards)

\* the results of a circle were rendered that has s1 exactly on its
\* boundary (centre (300, 200), radius 40, s1 at (260, 200)): s1 is listed
C14_Witness ==
    /\ circleState = [x |-> 300, y |-> 200, r |-> 40]
    /\ mapResultsGrid = [cards |-> << <<"s","1">>, <<"s","5">> >>,
                         message |-> FALSE]

\* C16: once the page has initialised, the results panel beneath the map
\* lists exactly the spots in range of the current circle, and shows the
\* empty-state message when there is none.
C16_MapResultsFollowCircle ==
    phase = "ready" =>
        /\ Range(mapResultsGrid.cards) =
               { id \in SpotIds :
                   (SPOT_COORDS[id].x - circleState.x)
                       * (SPOT_COORDS[id].x - circleState.x)
                 + (SPOT_COORDS[id].y - circleState.y)
                       * (SPOT_COORDS[id].y - circleState.y)
                   <= circleState.r * circleState.r }
        /\ mapResultsGrid.cards = <<>> => mapResultsGrid.message

\* C15: once showDetail has been called, the AR area is shown exactly when
\* the most recent call was for s5; a call for any other spot or for an
\* unknown id after s5 hides it again.
C15_ArOnlyForS5 ==
    detailView.kind # "initial" =>
        /\ arDisplay \in {"block", "none"}
        /\ arDisplay = "block" <=> detailSpotId = ArSpotId

\* the detail of s5 was shown and then an unknown id: the placeholder is
\* shown and the AR area is hidden
C15_Witness ==
    /\ phase = "ready"
    /\ hashQ = 0
    /\ pos = 2
    /\ history[1] = DetailToken(ArSpotId)
    /\ Fragment = DetailToken(UnknownSpotId)
    /\ detailView.kind = "notfound"
    /\ arDisplay = "none"

\* C18: no run of the hashchange listener, whatever page it shows (the
\* detail page and showDetail included), changes currentIndex, pointerDown
\* or the autoplay timer: the carousel keeps its index and its timer while
\* another page is visible.
C18_CarouselSurvivesPageSwitch ==
    [][ RunHashChange =>
          UNCHANGED <<currentIndex, pointerDown, autoplayTimer,
                      liveTimers>> ]_vars

\* the detail page of s5 is the visible page, reached from the top page,
\* while the carousel is on its last slide with its timer live
C18_Witness ==
    /\ phase = "ready"
    /\ hashQ = 0
    /\ Visible = {DetailTok}
    /\ detailView.kind = "spot"
    /\ currentIndex = slideCount - 1
    /\ autoplayTimer # 0
    /\ liveTimers = {autoplayTimer}

\* C19: whenever no hashchange event is pending, the visible page is the
\* page the current hash selects (top, results or map for those tokens,
\* detail for detail:<id>, top for anything else), whether the hash was set
\* by a handler, by the user or by a traversal, and at start-up.
C19_RouterFollowsHash ==
    ( /\ phase = "ready"
      /\ hashQ = 0 )
    => Visible = { IF Fragment \in {TopTok, ResultsTok, MapTok} THEN Fragment
                   ELSE IF StartsWith(Fragment, DetailPrefix) THEN DetailTok
                   ELSE TopTok }

\* C20: while pointerDown is true no autoplay timer is live, under every
\* interleaving of pointer events, mouseenter, mouseleave, button clicks and
\* timer ticks.
C20_NoTimerDuringDrag ==
    pointerDown => liveTimers = {}

====
